---- MODULE Spec2Model ----
(***************************************************************************)
(* The capture scheduler of LaptopDebugAnalyzer (src/logic_analyzer.py):   *)
(* start_capture / stop_capture / single_capture, the capture timer's      *)
(* handler update_capture, and the other handlers that touch the capture   *)
(* state (toggle_channel, new_session, load_data, connect / disconnect).   *)
(*                                                                         *)
(* Time is counted in periods of the capture timer (TickMs).  A sample is  *)
(* <<channel, n, k>>: the k-th sample of the batch that the n-th timeout   *)
(* of the capture timer read for the channel (n stands for the batch's     *)
(* 'timestamp'); <<channel, 0, k>> is a sample that came from a file.      *)
(***************************************************************************)
EXTENDS Integers, Sequences, FiniteSets, TLC

\* ------------------------------------------------------------- bounds
NumChannels == 2      \* channels modelled (range(8) in the source)
BatchSize   == 2      \* samples per read (read_samples(1000) in the source)
BufferBound == 3      \* the configured buffer bound, in samples
MaxTicks    == 2      \* timeouts of the capture timer in a behaviour
MaxPending  == 1      \* single-shot stop timers pending at once
StatsMaxLen   == 11   \* buffers of every content up to this length
WaveMaxLen    == 24   \* square-wave buffers up to this length
WaveMaxLead   == 11   \* low samples before a square wave's first pulse
WaveMaxHalf   == 3    \* samples in a half period of a square wave
HighThreshold == 40   \* a threshold above every sample, in tenths of a volt
I2CMaxLen     == 5    \* SCL/SDA buffers of every content up to this length
SpiMaxLen     == 36   \* SPI buffers up to this length
GenMaxSamples == 12   \* num_samples of a simulated read applied on its own
ClockMaxSamples == 24 \* num_samples of a simulated clock that is measured
NoiseMax      == 2    \* largest noise on a sample, in tenths of a volt
CursorMaxLen  == 2    \* samples of the reference buffer under the cursors
TimeStepUs    == 10   \* time between two of its samples, in microseconds
FftMaxLen     == 26   \* longest buffer given to update_fft
MagMax        == 2    \* largest magnitude of a spectrum bin

\* -------------------------------------------------- program constants
TickMs          == 50      \* capture_timer.start(50)
SingleShotMs    == 1000    \* QTimer.singleShot(1000, self.stop_capture)
HardwareLimitMS == 100     \* rate > 100e6 asks for confirmation
DefaultRateMS   == 24      \* sample_rate_combo.setCurrentText("24 MS/s")
HighRateMS      == 250     \* a rate of the combo above the limit
DefaultThreshold == 18     \* threshold=1.8, in tenths of a volt
HighLevel        == 33     \* the 3.3 V level of the simulated signals
FreqMinLen       == 10     \* if len(data) > 10: frequency analysis
EdgeMargin       == 10     \* edge - 10 >= 0 and edge + 10 < len(data)
BitsPerWord      == 8      \* range(0, len(rising_edges), 8)
SimChannelCount  == 8      \* for ch in range(8)
UartChannel      == 5      \* elif ch == 5: generate_uart_like
BaudRate         == 9600   \* generate_uart_like(time_data, 9600)
WindowUs         == 1000   \* np.linspace(0, 0.001, num_samples), in microseconds
ClipMax          == 36     \* np.clip(data + noise, 0, 3.6)
ReadSize         == 1000   \* self.hardware.read_samples(1000)
LowBins          == 10     \* np.argmax(fft_magnitude[10:]) + 10

SingleShotTicks == SingleShotMs \div TickMs

\* self.config['auto_save'] as load_configuration sets it (no config.json).
auto_save == TRUE

Channels == 0 .. (NumChannels - 1)

VARIABLES
    is_capturing,      \* self.is_capturing
    capture_timer,     \* self.capture_timer: "none" | "active" | "stopped"
    auto_save_timer,   \* self.auto_save_timer: "none" (no attribute) | "active" | "stopped"
    capture_data,      \* self.capture_data: channel -> sequence of samples
    tick_count,        \* timeouts of the capture timer handled so far
    ticks_in_run,      \* those of them handled since the last start_capture
    single_run,        \* whether single_capture made the last start_capture
    channels_enabled,  \* self.hardware.channels_enabled
    group_checked,     \* channel_configs[ch]['group'].isChecked()
    start_btn,         \* start_btn.isEnabled()
    stop_btn,          \* stop_btn.isEnabled()
    single_btn,        \* single_btn.isEnabled()
    connect_btn,       \* connect_btn.isEnabled()
    disconnect_btn,    \* disconnect_btn.isEnabled()
    connected,         \* self.hardware.connected
    simulation_mode,   \* self.hardware.simulation_mode
    device_found,      \* whether the scan found a device (device_combo has its entry)
    hw_scanned,        \* whether the singleShot(100, setup_hardware) has fired
    sample_rate,       \* sample_rate_combo.currentText(), in MS/s
    pending_stops,     \* singleShot(1000, stop_capture) timers: periods left
    logged,            \* level of the log_message the last handler made ("none": no entry)
    call,              \* the function applied on its own, with its arguments
    applied,           \* whether that function has returned or raised
    result,            \* [raised, value]: what it returned, or that it raised
    labels             \* the cursor panel's labels: <<>> is "--", <<v>> a value

schedulerVars == <<is_capturing, capture_timer, auto_save_timer, capture_data,
                     tick_count, ticks_in_run, single_run, channels_enabled,
                     group_checked, start_btn, stop_btn, single_btn, connect_btn,
                     disconnect_btn, connected, simulation_mode, device_found,
                     hw_scanned, sample_rate, pending_stops, logged>>

pureVars == <<call, applied, result, labels>>

vars == <<schedulerVars, pureVars>>

captureVars == <<is_capturing, capture_timer, auto_save_timer, capture_data,
                 tick_count, ticks_in_run, start_btn, stop_btn, single_btn, logged>>
channelVars == <<channels_enabled, group_checked>>
deviceVars  == <<connect_btn, disconnect_btn, connected, simulation_mode,
                 device_found, hw_scanned>>
configVars  == <<sample_rate>>

\* ------------------------------------------------------------ helpers
EmptyData == [c \in {} |-> <<>>]

Batch(c, n) == [k \in 1 .. BatchSize |-> <<c, n, k>>]

FileBatch(c) == Batch(c, 0)

Replies == {"Yes", "No"}

Min(a, b) == IF a < b THEN a ELSE b

\* The last n elements of s (all of s when it is shorter).
KeepLast(n, s) == IF Len(s) <= n THEN s ELSE SubSeq(s, Len(s) - n + 1, Len(s))

Tick1(s) == [i \in DOMAIN s |-> s[i] - 1]

\* The scheduler after LaptopDebugAnalyzer.__init__.
SchedulerInit ==
    /\ is_capturing = FALSE
    /\ capture_timer = "none"
    /\ auto_save_timer = "none"
    /\ capture_data = EmptyData
    /\ tick_count = 0
    /\ ticks_in_run = 0
    /\ single_run = FALSE
    /\ channels_enabled = [c \in Channels |-> TRUE]
    /\ group_checked = [c \in Channels |-> TRUE]
    /\ start_btn = TRUE
    /\ stop_btn = FALSE
    /\ single_btn = TRUE
    /\ connect_btn = TRUE
    /\ disconnect_btn = FALSE
    /\ connected = FALSE
    /\ simulation_mode = TRUE
    /\ device_found = FALSE
    /\ hw_scanned = FALSE
    /\ sample_rate = DefaultRateMS
    /\ pending_stops = <<>>
    /\ logged = "none"

\* The cursor panel's labels after setup_ui: every one shows "--".
Unavailable == <<>>

InitialLabels ==
    [cursor1_time |-> Unavailable, cursor1_voltage |-> Unavailable,
     cursor2_time |-> Unavailable, cursor2_voltage |-> Unavailable,
     delta_time |-> Unavailable, delta_voltage |-> Unavailable,
     frequency |-> Unavailable]

NoCall == [fn |-> "none"]

NoResult == [raised |-> FALSE, value |-> <<>>]

Init ==
    /\ SchedulerInit
    /\ call = NoCall
    /\ applied = FALSE
    /\ result = NoResult
    /\ labels = InitialLabels

\* --------------------------------------------------- HardwareInterface
\* What a function gives: the value it returns, or that it raised.
Returned(value) == [raised |-> FALSE, value |-> value]

Raised == [raised |-> TRUE, value |-> <<>>]

SimChannels == 0 .. (SimChannelCount - 1)

\* np.clip(v, 0, 3.6)
Clip(v) == IF v < 0 THEN 0 ELSE IF v > ClipMax THEN ClipMax ELSE v

\* int(bit_time / (time_data[1] - time_data[0])): the window is divided into
\* num_samples - 1 steps.
SamplesPerBit(num_samples) == ((num_samples - 1) * 1000000) \div (BaudRate * WindowUs)

\* generate_uart_like: time_data[1] raises IndexError for one sample, and
\* range(0, len(time_data), samples_per_bit * 10) raises ValueError when a
\* bit is shorter than a step.
UartRaises(num_samples) == num_samples < 2 \/ SamplesPerBit(num_samples) = 0

\* The levels of a channel's pattern before the noise: the analog sine of
\* channel 2 is 1.8 V +/- 0.5 V, every other pattern switches 0 and 3.3 V.
PatternLow(ch) == IF ch = 2 THEN 13 ELSE 0

PatternHigh(ch) == IF ch = 2 THEN 23 ELSE HighLevel

\* A channel's entry of the returned dict: how many time values and
\* voltages it has, and the range its voltages lie in.
ChannelSamples(ch, num_samples) ==
    [time |-> num_samples, data |-> num_samples,
     low |-> Clip(PatternLow(ch) - NoiseMax),
     high |-> Clip(PatternHigh(ch) + NoiseMax)]

\* enabled: the channels ch with self.channels_enabled[ch].
generate_simulated_samples(num_samples, enabled) ==
    IF UartChannel \in enabled /\ UartRaises(num_samples)
    THEN Raised
    ELSE Returned([ch \in enabled \cap SimChannels |-> ChannelSamples(ch, num_samples)])

\* read_samples whose hardware branch returns nothing yet.
read_samples_hardware_stub(num_samples, enabled, is_connected, simulation) ==
    IF ~is_connected \/ simulation
    THEN generate_simulated_samples(num_samples, enabled)
    ELSE Returned(EmptyData)

read_samples(num_samples, enabled, is_connected, simulation) ==
    IF ~is_connected \/ simulation
    THEN generate_simulated_samples(num_samples, enabled)
    ELSE generate_simulated_samples(num_samples, enabled)

\* self.hardware.read_samples(1000) in the scheduler's state.
HardwareRead ==
    read_samples(ReadSize, {c \in Channels : channels_enabled[c]}, connected,
                 simulation_mode)

\* --------------------------------------------------- capture handlers
\* validate_capture_settings without the count of checked channel groups.
validate_capture_settings_skips_channels(reply) ==
    sample_rate > HardwareLimitMS => reply = "Yes"

validate_capture_settings(reply) ==
    /\ Cardinality({c \in Channels : group_checked[c]}) # 0
    /\ (sample_rate > HardwareLimitMS => reply = "Yes")

\* start_capture without the line "self.capture_data.clear()".
start_capture_keeps_data(reply) ==
    IF ~validate_capture_settings(reply)
    THEN /\ logged' = "none"
         /\ UNCHANGED <<is_capturing, capture_timer, auto_save_timer,
                        capture_data, tick_count, ticks_in_run, start_btn,
                        stop_btn, single_btn>>
    ELSE /\ is_capturing' = TRUE
         /\ start_btn' = FALSE
         /\ stop_btn' = TRUE
         /\ single_btn' = FALSE
         /\ capture_timer' = "active"
         /\ ticks_in_run' = 0
         /\ logged' = "INFO"
         /\ auto_save_timer' = IF auto_save THEN "active" ELSE auto_save_timer
         /\ UNCHANGED <<capture_data, tick_count>>

\* "self.capture_timer = QTimer()" drops the only reference to the timer of
\* the run before, which has no parent: PyQt destroys it with its wrapper,
\* so the new timer is the one capture timer there is.
start_capture(reply) ==
    IF ~validate_capture_settings(reply)
    THEN /\ logged' = "none"
         /\ UNCHANGED <<is_capturing, capture_timer, auto_save_timer,
                        capture_data, tick_count, ticks_in_run, start_btn,
                        stop_btn, single_btn>>
    ELSE /\ is_capturing' = TRUE
         /\ start_btn' = FALSE
         /\ stop_btn' = TRUE
         /\ single_btn' = FALSE
         /\ capture_data' = EmptyData
         /\ capture_timer' = "active"
         /\ ticks_in_run' = 0
         /\ logged' = "INFO"
         /\ UNCHANGED tick_count
         /\ auto_save_timer' = IF auto_save THEN "active" ELSE auto_save_timer

\* stop_capture without "self.capture_timer.stop()".
stop_capture_leaves_timer ==
    /\ is_capturing' = FALSE
    /\ auto_save_timer' = IF auto_save_timer = "none" THEN "none" ELSE "stopped"
    /\ start_btn' = TRUE
    /\ stop_btn' = FALSE
    /\ single_btn' = TRUE
    /\ logged' = "INFO"
    /\ UNCHANGED <<capture_timer, capture_data, tick_count, ticks_in_run>>

\* stop_capture that also clears the buffers.
stop_capture_clears_data ==
    /\ is_capturing' = FALSE
    /\ capture_timer' = IF capture_timer = "none" THEN "none" ELSE "stopped"
    /\ auto_save_timer' = IF auto_save_timer = "none" THEN "none" ELSE "stopped"
    /\ start_btn' = TRUE
    /\ stop_btn' = FALSE
    /\ single_btn' = TRUE
    /\ logged' = "INFO"
    /\ capture_data' = EmptyData
    /\ UNCHANGED <<tick_count, ticks_in_run>>

stop_capture ==
    /\ is_capturing' = FALSE
    /\ capture_timer' = IF capture_timer = "none" THEN "none" ELSE "stopped"
    /\ auto_save_timer' = IF auto_save_timer = "none" THEN "none" ELSE "stopped"
    /\ start_btn' = TRUE
    /\ stop_btn' = FALSE
    /\ single_btn' = TRUE
    /\ logged' = "INFO"
    /\ UNCHANGED <<capture_data, tick_count, ticks_in_run>>

single_capture(reply) ==
    IF is_capturing
    THEN /\ logged' = "none"
         /\ UNCHANGED <<is_capturing, capture_timer, auto_save_timer,
                        capture_data, tick_count, ticks_in_run, start_btn,
                        stop_btn, single_btn, pending_stops>>
    ELSE /\ start_capture(reply)
         /\ pending_stops' = Append(pending_stops, SingleShotTicks)

\* What a timeout of the capture timer can run into: nothing, the read
\* raising, or the plotting of channel c raising (after c's data is stored).
FailPoints == {<<"none", 0>>, <<"read", 0>>} \cup {<<"plot", c>> : c \in Channels}

\* The channels whose buffer a timeout stores, in the order of the loop
\* (ascending), up to the channel where it raises.
StoredChannels(fail) ==
    IF fail[1] = "read"
    THEN {}
    ELSE {c \in Channels : /\ c \in DOMAIN HardwareRead.value
                           /\ group_checked[c]
                           /\ (fail[1] = "plot" => c <= fail[2])}

\* update_capture whose except branch ends the capture.
update_capture_stops_on_error(fail) ==
    IF ~is_capturing
    THEN /\ logged' = "none"
         /\ UNCHANGED <<is_capturing, capture_timer, auto_save_timer,
                        capture_data, tick_count, ticks_in_run, start_btn,
                        stop_btn, single_btn>>
    ELSE LET n == tick_count + 1
             stored == StoredChannels(fail)
         IN  /\ capture_data' =
                    [c \in (DOMAIN capture_data) \cup stored |->
                        IF c \in stored THEN Batch(c, n) ELSE capture_data[c]]
             /\ tick_count' = n
             /\ ticks_in_run' = ticks_in_run + 1
             /\ logged' = IF fail[1] = "none" THEN "none" ELSE "ERROR"
             /\ is_capturing' = (fail[1] = "none")
             /\ capture_timer' = IF fail[1] = "none" THEN capture_timer ELSE "stopped"
             /\ UNCHANGED <<auto_save_timer, start_btn, stop_btn, single_btn>>

update_capture(fail) ==
    IF ~is_capturing
    THEN /\ logged' = "none"
         /\ UNCHANGED <<is_capturing, capture_timer, auto_save_timer,
                        capture_data, tick_count, ticks_in_run, start_btn,
                        stop_btn, single_btn>>
    ELSE LET n == tick_count + 1
             stored == StoredChannels(fail)
         IN  /\ capture_data' =
                    [c \in (DOMAIN capture_data) \cup stored |->
                        IF c \in stored THEN Batch(c, n) ELSE capture_data[c]]
             /\ tick_count' = n
             /\ ticks_in_run' = ticks_in_run + 1
             /\ logged' = IF fail[1] = "none" THEN "none" ELSE "ERROR"
             /\ UNCHANGED <<is_capturing, capture_timer, auto_save_timer,
                            start_btn, stop_btn, single_btn>>

\* toggle_channel without "del self.capture_data[channel]".
toggle_channel_keeps_buffer(channel, enabled) ==
    /\ channels_enabled' = [channels_enabled EXCEPT ![channel] = enabled]
    /\ UNCHANGED capture_data

toggle_channel(channel, enabled) ==
    /\ channels_enabled' = [channels_enabled EXCEPT ![channel] = enabled]
    /\ capture_data' =
           IF ~enabled /\ channel \in DOMAIN capture_data
           THEN [c \in (DOMAIN capture_data) \ {channel} |-> capture_data[c]]
           ELSE capture_data

new_session(reply) ==
    capture_data' = IF reply = "Yes" THEN EmptyData ELSE capture_data

\* ------------------------------------------------------ capture files
\* A capture file: its kind (by the file name's suffix; "none" when the
\* dialog is cancelled), whether it can be read and parsed, whether a CSV
\* has the Time_s column, and its channel entries <<ch_num, well_formed>>.
CaptureFile(kind, readable, has_time, entries) ==
    [kind |-> kind, readable |-> readable, has_time |-> has_time, entries |-> entries]

Files ==
    { CaptureFile("none", TRUE, TRUE, <<>>),
      CaptureFile("other", TRUE, TRUE, <<>>),
      CaptureFile("json", FALSE, TRUE, <<>>),
      CaptureFile("json", TRUE, TRUE, <<<<0, TRUE>>, <<1, TRUE>>>>),
      CaptureFile("json", TRUE, TRUE, <<<<0, TRUE>>, <<1, FALSE>>>>),
      CaptureFile("csv", FALSE, TRUE, <<>>),
      CaptureFile("csv", TRUE, TRUE, <<<<1, TRUE>>>>),
      CaptureFile("csv", TRUE, FALSE, <<<<0, TRUE>>>>) }

\* The loop over the file's channels: a malformed entry raises before it is
\* stored.
RECURSIVE LoadEntries(_, _)
LoadEntries(entries, data) ==
    IF entries = <<>>
    THEN [data |-> data, raised |-> FALSE]
    ELSE LET ch == Head(entries)[1]
             ok == Head(entries)[2]
             stored == [c \in (DOMAIN data) \cup {ch} |->
                           IF c = ch THEN FileBatch(ch) ELSE data[c]]
         IN  IF ~ok
             THEN [data |-> data, raised |-> TRUE]
             ELSE LoadEntries(Tail(entries), stored)

load_json_capture(file) ==
    IF ~file.readable
    THEN [data |-> capture_data, raised |-> TRUE]
    ELSE LoadEntries(file.entries, EmptyData)

load_csv_capture(file) ==
    IF ~file.readable
    THEN [data |-> capture_data, raised |-> TRUE]
    ELSE IF ~file.has_time
         THEN [data |-> EmptyData, raised |-> FALSE]
         ELSE LoadEntries(file.entries, EmptyData)

load_data(file) ==
    LET r == IF file.kind = "json" THEN load_json_capture(file)
             ELSE IF file.kind = "csv" THEN load_csv_capture(file)
             ELSE [data |-> capture_data, raised |-> FALSE]
    IN  /\ capture_data' = r.data
        /\ logged' = IF file.kind = "none" THEN "none"
                       ELSE IF r.raised THEN "ERROR"
                       ELSE "INFO"

save_data(io_ok) ==
    logged' = IF capture_data = EmptyData THEN "none"
                ELSE IF io_ok /\ 0 \in DOMAIN capture_data THEN "SUCCESS"
                ELSE "ERROR"

\* ------------------------------------------------------------ devices
\* The connect button's handler with the found device selected in
\* device_combo; hw_ok is whether HardwareInterface.connect_device succeeds.
connect_device(hw_ok) ==
    IF ~device_found
    THEN /\ logged' = "none"
         /\ UNCHANGED <<connect_btn, disconnect_btn, connected,
                        simulation_mode, start_btn>>
    ELSE IF hw_ok
         THEN /\ connected' = TRUE
              /\ simulation_mode' = FALSE
              /\ connect_btn' = FALSE
              /\ disconnect_btn' = TRUE
              /\ start_btn' = TRUE
              /\ logged' = "SUCCESS"
         ELSE /\ simulation_mode' = TRUE
              /\ logged' = "ERROR"
              /\ UNCHANGED <<connect_btn, connected, disconnect_btn, start_btn>>

disconnect_device ==
    /\ connected' = FALSE
    /\ connect_btn' = TRUE
    /\ disconnect_btn' = FALSE
    /\ start_btn' = FALSE
    /\ stop_btn' = FALSE
    /\ logged' = "INFO"

\* setup_hardware: the scan finds one device (and connects to it at once)
\* or none.
setup_hardware(found, hw_ok) ==
    /\ hw_scanned' = TRUE
    /\ device_found' = found
    /\ IF found
       THEN IF hw_ok
            THEN /\ connected' = TRUE
                 /\ simulation_mode' = FALSE
                 /\ connect_btn' = FALSE
                 /\ disconnect_btn' = TRUE
                 /\ start_btn' = TRUE
                 /\ logged' = "SUCCESS"
            ELSE /\ simulation_mode' = TRUE
                 /\ logged' = "ERROR"
                 /\ UNCHANGED <<connect_btn, connected, disconnect_btn, start_btn>>
       ELSE /\ logged' = "WARNING"
            /\ UNCHANGED <<connect_btn, disconnect_btn, connected,
                           simulation_mode, start_btn>>

\* ------------------------------------------------------------ actions
\* QTimer.singleShot(100, self.setup_hardware), once after construction.
SetupHardware ==
    /\ ~hw_scanned
    /\ \E found \in BOOLEAN, hw_ok \in BOOLEAN : setup_hardware(found, hw_ok)
    /\ UNCHANGED <<is_capturing, capture_timer, auto_save_timer, capture_data,
                   tick_count, ticks_in_run, single_run, stop_btn, single_btn,
                   channelVars, configVars, pending_stops>>
    /\ UNCHANGED pureVars

ConnectClicked ==
    /\ connect_btn
    /\ \E hw_ok \in BOOLEAN : connect_device(hw_ok)
    /\ UNCHANGED <<is_capturing, capture_timer, auto_save_timer, capture_data,
                   tick_count, ticks_in_run, single_run, stop_btn, single_btn,
                   channelVars, configVars, pending_stops, device_found,
                   hw_scanned>>
    /\ UNCHANGED pureVars

DisconnectClicked ==
    /\ disconnect_btn
    /\ disconnect_device
    /\ UNCHANGED <<is_capturing, capture_timer, auto_save_timer, capture_data,
                   tick_count, ticks_in_run, single_run, single_btn,
                   channelVars, configVars, pending_stops, simulation_mode,
                   device_found, hw_scanned>>
    /\ UNCHANGED pureVars

\* A call of start_capture from the Start button or the keyboard.
StartCall(reply) ==
    /\ start_capture(reply)
    /\ single_run' = IF validate_capture_settings(reply) THEN FALSE ELSE single_run
    /\ UNCHANGED <<channelVars, deviceVars, configVars, pending_stops>>
    /\ UNCHANGED pureVars

\* A call of stop_capture from the Stop button or the keyboard.
StopCall ==
    /\ stop_capture
    /\ UNCHANGED <<single_run, channelVars, deviceVars, configVars, pending_stops>>
    /\ UNCHANGED pureVars

\* A call of single_capture from the Single button or the keyboard.
SingleCall(reply) ==
    /\ single_capture(reply)
    /\ single_run' = IF ~is_capturing /\ validate_capture_settings(reply)
                     THEN TRUE ELSE single_run
    /\ UNCHANGED <<channelVars, deviceVars, configVars>>
    /\ UNCHANGED pureVars

StartClicked == start_btn /\ \E reply \in Replies : StartCall(reply)

KeyF5 == \E reply \in Replies : StartCall(reply)

StopClicked == stop_btn /\ StopCall

KeyF6 == StopCall

KeySpace == IF is_capturing THEN StopCall ELSE \E reply \in Replies : StartCall(reply)

SingleClicked ==
    /\ single_btn
    /\ Len(pending_stops) < MaxPending
    /\ \E reply \in Replies : SingleCall(reply)

KeyF7 ==
    /\ Len(pending_stops) < MaxPending
    /\ \E reply \in Replies : SingleCall(reply)

\* A timeout of capture_timer: one period passes and update_capture runs.
CaptureTimerTimeout ==
    /\ capture_timer = "active"
    /\ tick_count < MaxTicks
    /\ \A i \in DOMAIN pending_stops : pending_stops[i] > 0
    /\ \E fail \in FailPoints :
          /\ fail[1] = "plot" => fail[2] \in StoredChannels(<<"none", 0>>)
          /\ update_capture(fail)
    /\ pending_stops' = Tick1(pending_stops)
    /\ UNCHANGED <<single_run, channelVars, deviceVars, configVars>>
    /\ UNCHANGED pureVars

\* Time passes while the capture timer is not running: up to MaxTicks
\* periods before the earliest single-shot stop in one step, and from there
\* one period at a time.
IdleStep(left) == IF left > MaxTicks THEN left - MaxTicks ELSE 1

RECURSIVE MinOf(_)
MinOf(seq) == IF Len(seq) = 1 THEN seq[1] ELSE Min(seq[1], MinOf(Tail(seq)))

TimePasses ==
    /\ capture_timer # "active"
    /\ pending_stops # <<>>
    /\ \A i \in DOMAIN pending_stops : pending_stops[i] > 0
    /\ pending_stops' = [i \in DOMAIN pending_stops |->
                            pending_stops[i] - IdleStep(MinOf(pending_stops))]
    /\ logged' = "none"
    /\ UNCHANGED <<is_capturing, capture_timer, auto_save_timer, capture_data,
                   tick_count, ticks_in_run, single_run, start_btn, stop_btn,
                   single_btn, channelVars, deviceVars, configVars>>
    /\ UNCHANGED pureVars

\* The timeout of a QTimer.singleShot(1000, self.stop_capture).
SingleShotTimeout ==
    /\ \E i \in DOMAIN pending_stops :
          /\ pending_stops[i] = 0
          /\ pending_stops' = SubSeq(pending_stops, 1, i - 1)
                                \o SubSeq(pending_stops, i + 1, Len(pending_stops))
    /\ stop_capture
    /\ UNCHANGED <<single_run, channelVars, deviceVars, configVars>>
    /\ UNCHANGED pureVars

\* The user checks or unchecks a channel's group box: toggled -> toggle_channel.
ChannelToggled ==
    /\ \E ch \in Channels :
          /\ group_checked' = [group_checked EXCEPT ![ch] = ~group_checked[ch]]
          /\ toggle_channel(ch, ~group_checked[ch])
    /\ logged' = "none"
    /\ UNCHANGED <<is_capturing, capture_timer, auto_save_timer, tick_count,
                   ticks_in_run, single_run, start_btn, stop_btn, single_btn,
                   deviceVars, configVars, pending_stops>>
    /\ UNCHANGED pureVars

NewSession ==
    /\ \E reply \in Replies : new_session(reply)
    /\ logged' = "none"
    /\ UNCHANGED <<is_capturing, capture_timer, auto_save_timer, tick_count,
                   ticks_in_run, single_run, start_btn, stop_btn, single_btn,
                   channelVars, deviceVars, configVars, pending_stops>>
    /\ UNCHANGED pureVars

LoadData ==
    /\ \E file \in Files : load_data(file)
    /\ UNCHANGED <<is_capturing, capture_timer, auto_save_timer, tick_count,
                   ticks_in_run, single_run, start_btn, stop_btn, single_btn,
                   channelVars, deviceVars, configVars, pending_stops>>
    /\ UNCHANGED pureVars

SaveData ==
    /\ \E io_ok \in BOOLEAN : save_data(io_ok)
    /\ UNCHANGED <<is_capturing, capture_timer, auto_save_timer, capture_data,
                   tick_count, ticks_in_run, single_run, start_btn, stop_btn,
                   single_btn, channelVars, deviceVars, configVars,
                   pending_stops>>
    /\ UNCHANGED pureVars

\* The user picks another entry of sample_rate_combo.
SampleRateChanged ==
    /\ \E rate \in {DefaultRateMS, HighRateMS} :
          /\ rate # sample_rate
          /\ sample_rate' = rate
    /\ logged' = "none"
    /\ UNCHANGED <<is_capturing, capture_timer, auto_save_timer, capture_data,
                   tick_count, ticks_in_run, single_run, start_btn, stop_btn,
                   single_btn, channelVars, deviceVars, pending_stops>>
    /\ UNCHANGED pureVars

Next ==
    \/ SetupHardware
    \/ ConnectClicked
    \/ DisconnectClicked
    \/ StartClicked
    \/ KeyF5
    \/ StopClicked
    \/ KeyF6
    \/ KeySpace
    \/ SingleClicked
    \/ KeyF7
    \/ CaptureTimerTimeout
    \/ TimePasses
    \/ SingleShotTimeout
    \/ ChannelToggled
    \/ NewSession
    \/ LoadData
    \/ SaveData
    \/ SampleRateChanged

Spec == Init /\ [][Next]_vars

\* -------------------------------------------------- MeasurementEngine
\* Voltages are in tenths of a volt; a buffer is a sequence of voltages.
\* Indices of edges are those of numpy (from 0).
Levels == {0, HighLevel}

Thresholds == {DefaultThreshold, HighThreshold}

\* (data > threshold).astype(int)
Digital(data, threshold) ==
    [k \in DOMAIN data |-> IF data[k] > threshold THEN 1 ELSE 0]

\* np.where(np.diff(digital) == d)[0], as a set
EdgesOf(digital, d) ==
    {e \in 0 .. (Len(digital) - 2) : digital[e + 2] - digital[e + 1] = d}

SetMin(S) == CHOOSE x \in S : \A y \in S : x <= y

SetMax(S) == CHOOSE x \in S : \A y \in S : y <= x

RECURSIVE Ascending(_)
Ascending(S) ==
    IF S = {} THEN <<>> ELSE <<SetMin(S)>> \o Ascending(S \ {SetMin(S)})

BaseKeys == {"min", "max", "mean", "rms", "std_dev", "vpp", "median"}

\* A statistics record: its keys, and the values of min, max, frequency
\* (cycles per sample, <<numerator, denominator>>) and period (samples,
\* likewise) and duty_cycle (percent, likewise); <<>> for a key the record
\* does not have.
Stats(keys, lo, hi, frequency, period, duty_cycle) ==
    [keys |-> keys, min |-> lo, max |-> hi, frequency |-> frequency,
     period |-> period, duty_cycle |-> duty_cycle]

EmptyStats == Stats({}, <<>>, <<>>, <<>>, <<>>, <<>>)

RECURSIVE Sum(_)
Sum(seq) == IF seq = <<>> THEN 0 ELSE Head(seq) + Sum(Tail(seq))

\* The loop "for i in range(min(len(rising_edges), len(falling_edges)))":
\* the i-th rising edge is paired with the i-th falling edge, and the pair
\* is kept if the rising edge comes first.
RECURSIVE PulseWidths(_, _)
PulseWidths(rising_edges, falling_edges) ==
    IF rising_edges = <<>> \/ falling_edges = <<>>
    THEN <<>>
    ELSE (IF Head(rising_edges) < Head(falling_edges)
          THEN <<Head(falling_edges) - Head(rising_edges)>>
          ELSE <<>>)
         \o PulseWidths(Tail(rising_edges), Tail(falling_edges))

\* The body of calculate_statistics for more than 10 samples, once the
\* edges are found.
StatisticsOfEdges(data, rising_edges, falling_edges) ==
    LET values == {data[k] : k \in DOMAIN data}
        has_period == Len(rising_edges) > 1
        span == rising_edges[Len(rising_edges)] - rising_edges[1]
        pulse_widths == PulseWidths(rising_edges, falling_edges)
        has_duty == has_period /\ pulse_widths # <<>>
        rise_times ==
            {i \in DOMAIN rising_edges :
                /\ rising_edges[i] - EdgeMargin >= 0
                /\ rising_edges[i] + EdgeMargin < Len(data)}
        keys ==
            BaseKeys
            \cup (IF has_period THEN {"frequency", "period"} ELSE {})
            \cup (IF has_duty THEN {"duty_cycle"} ELSE {})
            \cup (IF rise_times # {} THEN {"rise_time", "fall_time"} ELSE {})
    IN  Returned(Stats(keys, <<SetMin(values)>>, <<SetMax(values)>>,
                       IF has_period
                       THEN <<Len(rising_edges) - 1, span>> ELSE <<>>,
                       IF has_period
                       THEN <<span, Len(rising_edges) - 1>> ELSE <<>>,
                       IF has_duty
                       THEN <<100 * Sum(pulse_widths) * (Len(rising_edges) - 1),
                              Len(pulse_widths) * span>>
                       ELSE <<>>))

\* calculate_statistics counting every edge, rising or falling, as the start
\* of a period.
calculate_statistics_counts_all_edges(data, threshold) ==
    IF Len(data) = 0
    THEN Returned(EmptyStats)
    ELSE IF Len(data) <= FreqMinLen
    THEN Raised
    ELSE LET digital == Digital(data, threshold)
         IN  StatisticsOfEdges(data,
                 Ascending(EdgesOf(digital, 1) \cup EdgesOf(digital, -1)),
                 Ascending(EdgesOf(digital, -1)))

\* calculate_statistics without "if len(data) == 0: return {}": np.min of an
\* empty array raises.
calculate_statistics_no_empty_check(data, threshold) ==
    IF Len(data) <= FreqMinLen
    THEN Raised
    ELSE Returned(Stats(BaseKeys, <<>>, <<>>, <<>>, <<>>, <<>>))

\* rising_edges is assigned only inside "if len(data) > 10", and read after
\* it by "if len(rising_edges) > 0": a buffer of 1 to 10 samples raises
\* UnboundLocalError.
calculate_statistics(data, threshold) ==
    IF Len(data) = 0
    THEN Returned(EmptyStats)
    ELSE IF Len(data) <= FreqMinLen
    THEN Raised
    ELSE LET digital == Digital(data, threshold)
         IN  StatisticsOfEdges(data, Ascending(EdgesOf(digital, 1)),
                               Ascending(EdgesOf(digital, -1)))

\* A square wave of n samples: lead low samples, then pulses of half high
\* and half low samples.
SquareWave(n, lead, half) ==
    [k \in 1 .. n |->
        IF k > lead /\ ((k - lead - 1) \div half) % 2 = 0 THEN HighLevel ELSE 0]

StatsBuffers ==
    (UNION {[1 .. n -> Levels] : n \in 0 .. StatsMaxLen})
    \cup {SquareWave(n, lead, half) :
             n \in 0 .. WaveMaxLen, lead \in 0 .. WaveMaxLead, half \in 1 .. WaveMaxHalf}

StatsCalls ==
    {[fn |-> "calculate_statistics", data |-> d, threshold |-> t] :
        d \in StatsBuffers, t \in Thresholds}

ApplyStatistics ==
    /\ call.fn = "calculate_statistics"
    /\ ~applied
    /\ applied' = TRUE
    /\ result' = calculate_statistics(call.data, call.threshold)
    /\ UNCHANGED <<call, labels, schedulerVars>>

\* ---------------------------------------------------- ProtocolDecoder
Max(a, b) == IF a < b THEN b ELSE a

\* np.diff(x.astype(int)), indexed from 0
Diff(digital) == [e \in 0 .. (Len(digital) - 2) |-> digital[e + 2] - digital[e + 1]]

\* np.where((scl[start_idx:] == 1) & (sda_edges[start_idx:] == 1))[0]:
\* the operands have L - start_idx and L - 1 - start_idx elements, which
\* numpy combines only if one of them has a single element (broadcast);
\* otherwise "&" raises ValueError.
StopSearch(scl, sda_edges, start_idx) ==
    LET a == Len(scl) - start_idx
        b == Len(scl) - 1 - start_idx
    IN  IF a # b /\ a # 1 /\ b # 1
        THEN [raised |-> TRUE, hits |-> {}]
        ELSE [raised |-> FALSE,
              hits |-> {j \in 0 .. (Max(a, b) - 1) :
                          /\ scl[start_idx + (IF a = 1 THEN 0 ELSE j) + 1] = 1
                          /\ sda_edges[start_idx + (IF b = 1 THEN 0 ELSE j)] = 1}]

Transaction(start, stop) == [start |-> start, stop |-> stop, type |-> "I2C"]

\* The loop "for start_idx in start_indices".
RECURSIVE DecodeStarts(_, _, _, _)
DecodeStarts(scl, sda_edges, start_indices, transactions) ==
    IF start_indices = <<>>
    THEN Returned(transactions)
    ELSE LET start_idx == Head(start_indices)
             found == StopSearch(scl, sda_edges, start_idx)
         IN  IF found.raised
             THEN Raised
             ELSE DecodeStarts(scl, sda_edges, Tail(start_indices),
                      IF found.hits = {}
                      THEN transactions
                      ELSE Append(transactions,
                               Transaction(start_idx, start_idx + SetMin(found.hits))))

decode_i2c(data_ch1, data_ch2, threshold) ==
    LET scl == Digital(data_ch1, threshold)
        sda == Digital(data_ch2, threshold)
        scl_edges == Diff(scl)
        sda_edges == Diff(sda)
        start_indices ==
            Ascending({e \in DOMAIN scl_edges : scl_edges[e] = 0 /\ sda_edges[e] = -1})
    IN  DecodeStarts(scl, sda_edges, start_indices, <<>>)

I2CCalls ==
    {[fn |-> "decode_i2c", data_ch1 |-> d[1], data_ch2 |-> d[2], threshold |-> t] :
        d \in UNION {[1 .. n -> Levels] \X [1 .. n -> Levels] : n \in 0 .. I2CMaxLen},
        t \in Thresholds}

ApplyDecodeI2C ==
    /\ call.fn = "decode_i2c"
    /\ ~applied
    /\ applied' = TRUE
    /\ result' = decode_i2c(call.data_ch1, call.data_ch2, call.threshold)
    /\ UNCHANGED <<call, labels, schedulerVars>>

SpiTransaction(mosi_byte, miso_byte, position) ==
    [mosi |-> mosi_byte, miso |-> miso_byte, position |-> position, type |-> "SPI"]

\* int(''.join(map(str, bits)), 2)
RECURSIVE BitsToByte(_)
BitsToByte(bits) ==
    IF bits = <<>>
    THEN 0
    ELSE 2 * BitsToByte(SubSeq(bits, 1, Len(bits) - 1)) + bits[Len(bits)]

\* The bits of buf at the word's rising edges; i is the word's first edge
\* (from 0).
WordBits(buf, rising_edges, i, threshold) ==
    [j \in 1 .. BitsPerWord |->
        IF buf[rising_edges[i + j] + 1] > threshold THEN 1 ELSE 0]

\* The first edges of the words "for i in range(0, len(rising_edges), 8)"
\* visits, with or without "if i + 8 <= len(rising_edges)".
WordStarts(edge_count, whole_only) ==
    {i \in 0 .. (edge_count - 1) :
        /\ i % BitsPerWord = 0
        /\ whole_only => i + BitsPerWord <= edge_count}

\* decode_spi without "if i + 8 <= len(rising_edges)", reading the edges a
\* last word has.
decode_spi_keeps_remainder(mosi, miso, sclk, cs, threshold) ==
    LET rising_edges == Ascending(EdgesOf(Digital(sclk, threshold), 1))
        starts == Ascending(WordStarts(Len(rising_edges), FALSE))
    IN  Returned([k \in DOMAIN starts |-> SpiTransaction(0, 0, starts[k])])

\* decode_spi emitting a word only if chip select is active (below the
\* threshold) at the word's first clock edge.
decode_spi_gated_by_cs(mosi, miso, sclk, cs, threshold) ==
    LET rising_edges == Ascending(EdgesOf(Digital(sclk, threshold), 1))
        starts == Ascending({i \in WordStarts(Len(rising_edges), TRUE) :
                                cs[rising_edges[i + 1] + 1] < threshold})
    IN  Returned([k \in DOMAIN starts |->
             SpiTransaction(
                 BitsToByte(WordBits(mosi, rising_edges, starts[k], threshold)),
                 BitsToByte(WordBits(miso, rising_edges, starts[k], threshold)),
                 starts[k])])

\* mosi[idx] and miso[idx] raise IndexError when those buffers are shorter
\* than the clock's. cs enters only "cs_active = cs < threshold", which
\* nothing reads.
decode_spi(mosi, miso, sclk, cs, threshold) ==
    LET rising_edges == Ascending(EdgesOf(Digital(sclk, threshold), 1))
        starts == Ascending(WordStarts(Len(rising_edges), TRUE))
        read == {rising_edges[i] : i \in 1 .. (Len(starts) * BitsPerWord)}
    IN  IF \E idx \in read : idx + 1 > Len(mosi) \/ idx + 1 > Len(miso)
        THEN Raised
        ELSE Returned([k \in DOMAIN starts |->
                 SpiTransaction(
                     BitsToByte(WordBits(mosi, rising_edges, starts[k], threshold)),
                     BitsToByte(WordBits(miso, rising_edges, starts[k], threshold)),
                     starts[k])])

\* Data lines as long as the clock: steady low, steady high, or toggling.
SpiDataLines(n) ==
    {SquareWave(n, n, 1), SquareWave(n, 0, n + 1), SquareWave(n, 0, 2)}

SpiCallsOfLength(n) ==
    {[fn |-> "decode_spi", mosi |-> mosi, miso |-> miso,
      sclk |-> SquareWave(n, lead, half), cs |-> cs,
      threshold |-> t] :
        mosi \in SpiDataLines(n), miso \in SpiDataLines(n), cs \in SpiDataLines(n),
        lead \in 0 .. 1, half \in 1 .. 2, t \in Thresholds}

SpiCalls == UNION {SpiCallsOfLength(n) : n \in 0 .. SpiMaxLen}

ApplyDecodeSPI ==
    /\ call.fn = "decode_spi"
    /\ ~applied
    /\ applied' = TRUE
    /\ result' = decode_spi(call.mosi, call.miso, call.sclk, call.cs, call.threshold)
    /\ UNCHANGED <<call, labels, schedulerVars>>

\* ------------------------------------------ the simulated read, applied
GenerateCalls ==
    {[fn |-> "generate_simulated_samples", num_samples |-> n, enabled |-> e] :
        n \in 1 .. GenMaxSamples, e \in SUBSET SimChannels}

ApplyGenerate ==
    /\ call.fn = "generate_simulated_samples"
    /\ ~applied
    /\ applied' = TRUE
    /\ result' = generate_simulated_samples(call.num_samples, call.enabled)
    /\ UNCHANGED <<call, labels, schedulerVars>>

\* The noise added to sample k (from 0): none, steady, or alternating.
NoisePatterns == {"none", "up", "down", "alternating"}

Noise(pattern, k) ==
    IF pattern = "none" THEN 0
    ELSE IF pattern = "up" THEN NoiseMax
    ELSE IF pattern = "down" THEN 0 - NoiseMax
    ELSE IF k % 2 = 0 THEN NoiseMax ELSE 0 - NoiseMax

\* Channel 0 of generate_simulated_samples: (sin(2 pi 1000 t) > 0) * 3.3 over
\* t = k * 0.001 / (num_samples - 1), one cycle in the window: sample k (from
\* 0) is high for 0 < k <= (num_samples - 1) / 2 (sin(pi) evaluates to a
\* positive number and sin(0), sin(2 pi) to non-positive ones).
SimulatedClock(num_samples, pattern) ==
    [k \in 1 .. num_samples |->
        Clip((IF k - 1 > 0 /\ 2 * (k - 1) <= num_samples - 1 THEN HighLevel ELSE 0)
             + Noise(pattern, k - 1))]

ClockCalls ==
    {[fn |-> "measure_clock", num_samples |-> n, noise |-> p] :
        n \in (FreqMinLen + 1) .. ClockMaxSamples, p \in NoisePatterns}

\* update_capture's measurement of channel 0: calculate_statistics of the
\* simulated clock, with the default threshold.
ApplyMeasureClock ==
    /\ call.fn = "measure_clock"
    /\ ~applied
    /\ applied' = TRUE
    /\ result' = calculate_statistics(SimulatedClock(call.num_samples, call.noise),
                                      DefaultThreshold)
    /\ UNCHANGED <<call, labels, schedulerVars>>

\* ------------------------------------------------ cursor measurements
\* Times and cursor positions are in microseconds.
Abs(x) == IF x < 0 THEN 0 - x ELSE x

\* np.argmin(np.abs(time - x)), from 0: the first of the nearest samples.
ArgMin(time, x) ==
    SetMin({k \in 0 .. (Len(time) - 1) :
               \A j \in 0 .. (Len(time) - 1) : Abs(time[k + 1] - x) <= Abs(time[j + 1] - x)})

\* f"{freq:.1f}" of freq = 1 / (dt * 0.001), in tenths of a hertz; dt_us is
\* dt in microseconds.
FrequencyText(dt_us) == (2 * 10000000 + dt_us) \div (2 * dt_us)

\* reference is capture_data[0] ([present |-> FALSE] when channel 0 has no
\* entry); old is what the labels show before the call.  The bare except
\* swallows the ValueError of np.argmin on an empty time array.
update_cursor_measurements(reference, cursor1_x, cursor2_x, old) ==
    IF ~reference.present
    THEN old
    ELSE IF Len(reference.time) = 0
    THEN old
    ELSE LET idx1 == ArgMin(reference.time, cursor1_x)
             idx2 == ArgMin(reference.time, cursor2_x)
         IN  IF ~(idx1 < Len(reference.data) /\ idx2 < Len(reference.data))
             THEN old
             ELSE LET v1 == reference.data[idx1 + 1]
                      v2 == reference.data[idx2 + 1]
                      t1 == reference.time[idx1 + 1]
                      t2 == reference.time[idx2 + 1]
                      dt == Abs(t2 - t1)
                  IN  [cursor1_time |-> <<t1>>, cursor1_voltage |-> <<v1>>,
                       cursor2_time |-> <<t2>>, cursor2_voltage |-> <<v2>>,
                       delta_time |-> <<dt>>, delta_voltage |-> <<Abs(v2 - v1)>>,
                       frequency |-> IF dt > 0 THEN <<FrequencyText(dt)>>
                                     ELSE old.frequency]

ReferenceBuffers ==
    {[present |-> FALSE]}
    \cup {[present |-> TRUE, time |-> [k \in 1 .. n |-> TimeStepUs * (k - 1)], data |-> d] :
             n \in 0 .. CursorMaxLen, d \in UNION {[1 .. m -> Levels] : m \in 0 .. CursorMaxLen}}

CursorPositions == {0, TimeStepUs \div 2 - 1, TimeStepUs}

CursorCalls ==
    {[fn |-> "update_cursor_measurements", reference |-> r, cursor1_x |-> x1,
      cursor2_x |-> x2] :
        r \in {b \in ReferenceBuffers : b.present => Len(b.data) = Len(b.time)},
        x1 \in CursorPositions, x2 \in CursorPositions}

\* update_capture's call of update_cursor_measurements.
ApplyCursorUpdate ==
    /\ call.fn = "update_cursor_measurements"
    /\ ~applied
    /\ applied' = TRUE
    /\ labels' = update_cursor_measurements(call.reference, call.cursor1_x,
                                              call.cursor2_x, labels)
    /\ result' = Returned(<<>>)
    /\ UNCHANGED <<call, schedulerVars>>

\* Before the next timeout the user moves the cursors, and the reference
\* buffer changes or goes away; the labels stay as they are.
CursorsMoved ==
    /\ call.fn = "update_cursor_measurements"
    /\ applied
    /\ call' \in CursorCalls
    /\ applied' = FALSE
    /\ result' = NoResult
    /\ UNCHANGED <<labels, schedulerVars>>

\* ------------------------------------- the functions, applied on their own
\* ------------------------------------------------------------ spectrum
\* What update_fft writes to freq_values[0] and freq_values[1]: the bin of
\* the estimate and its magnitude, or nothing.
NoEstimate == [reported |-> FALSE, fundamental_idx |-> <<>>, fundamental_mag |-> <<>>]

Estimate(idx, mag) ==
    [reported |-> TRUE, fundamental_idx |-> <<idx>>, fundamental_mag |-> <<mag>>]

\* np.argmax(fft_magnitude[first:]) + first: the first bin, from 0, of the
\* largest magnitude among the bins from first on.
ArgMaxFrom(fft_magnitude, first) ==
    LET bins == {k \in DOMAIN fft_magnitude : k >= first}
    IN  SetMin({k \in bins : \A j \in bins : fft_magnitude[j] <= fft_magnitude[k]})

\* update_fft taking the estimate over the whole half spectrum.
update_fft_whole_spectrum(present, length, fft_magnitude) ==
    IF ~present \/ length = 0 \/ DOMAIN fft_magnitude = {}
    THEN Returned(NoEstimate)
    ELSE LET fundamental_idx == ArgMaxFrom(fft_magnitude, 0)
         IN  Returned(Estimate(fundamental_idx, fft_magnitude[fundamental_idx]))

\* present: 0 in self.capture_data; length: len(data); fft_magnitude: the
\* magnitudes of the half spectrum, bins 0 .. length // 2 - 1. np.fft.fft
\* of an empty buffer raises ValueError, which "except Exception: pass"
\* swallows, like every other exception of the body.
update_fft(present, length, fft_magnitude) ==
    IF ~present \/ length = 0
    THEN Returned(NoEstimate)
    ELSE IF Cardinality(DOMAIN fft_magnitude) > LowBins
    THEN LET fundamental_idx == ArgMaxFrom(fft_magnitude, LowBins)
         IN  Returned(Estimate(fundamental_idx, fft_magnitude[fundamental_idx]))
    ELSE Returned(NoEstimate)

\* Half spectra of a buffer of the given length: the lowest bins at one
\* level, the bins from LowBins on at any levels.
Spectra(length) ==
    LET half == length \div 2
    IN  {[k \in 0 .. (half - 1) |-> IF k < LowBins THEN low ELSE high[k]] :
            low \in 0 .. MagMax, high \in [LowBins .. (half - 1) -> 0 .. MagMax]}

FftCalls ==
    {[fn |-> "update_fft", present |-> c[1], length |-> c[2], fft_magnitude |-> c[3]] :
        c \in UNION {BOOLEAN \X {n} \X Spectra(n) : n \in 0 .. FftMaxLen}}

ApplyUpdateFft ==
    /\ call.fn = "update_fft"
    /\ ~applied
    /\ applied' = TRUE
    /\ result' = update_fft(call.present, call.length, call.fft_magnitude)
    /\ UNCHANGED <<call, labels, schedulerVars>>

Calls ==
    StatsCalls \cup I2CCalls \cup SpiCalls \cup GenerateCalls \cup ClockCalls
    \cup CursorCalls \cup FftCalls

PureInit ==
    /\ SchedulerInit
    /\ call \in Calls
    /\ applied = FALSE
    /\ result = NoResult
    /\ labels = InitialLabels

PureNext ==
    \/ ApplyStatistics
    \/ ApplyDecodeI2C
    \/ ApplyDecodeSPI
    \/ ApplyGenerate
    \/ ApplyMeasureClock
    \/ ApplyCursorUpdate
    \/ CursorsMoved
    \/ ApplyUpdateFft

PureSpec == PureInit /\ [][PureNext]_vars

\* ------------------------------------------------------------- claims
AnyChannelEnabled == \E c \in Channels : group_checked[c]

\* A call of stop_capture: from the button or the keyboard, or by the
\* single-shot timer of single_capture.
StopStep == StopCall \/ SingleShotTimeout

\* A call of start_capture: direct, or the one single_capture makes.
StartStep == \E reply \in Replies : StartCall(reply) \/ SingleCall(reply)

StartedClean ==
    /\ is_capturing
    /\ capture_data = EmptyData
    /\ capture_timer = "active"

\* C1 as stated: every call of start_capture in the Idle state with at least
\* one enabled channel ends Running, with all buffers empty and the capture
\* timer active.
C1_StartFromIdle_AsStated ==
    [][(~is_capturing /\ AnyChannelEnabled /\ \E reply \in Replies : StartCall(reply))
          => StartedClean']_vars

\* C1 amended: a call of start_capture in the Idle state whose settings
\* validation passes (a channel is enabled, and the sample rate is within the
\* hardware limit or the user confirms the prompt) ends Running, with all
\* buffers empty and the capture timer active; the Idle state may be that
\* after a stop, with the samples of the earlier run still buffered.
C1_StartFromIdle ==
    [][\A reply \in Replies :
          (~is_capturing /\ validate_capture_settings(reply) /\ StartCall(reply))
             => StartedClean']_vars

\* A run that single_capture started (it starts only from Idle) after an
\* earlier run captured samples and was stopped: nothing is buffered.
C1_Witness ==
    /\ StartedClean
    /\ single_run
    /\ tick_count > 0
    /\ ticks_in_run = 0
    /\ logged = "INFO"

\* C2: a call of stop_capture in the Running state ends Idle with the capture
\* timer stopped; while Idle the capture timer stays inactive, and a timeout
\* handled while Idle changes no buffer.
C2_StopFromRunning ==
    [][/\ (is_capturing /\ StopStep) => (~is_capturing' /\ capture_timer' = "stopped")
       /\ (~is_capturing /\ ~is_capturing') => capture_timer' # "active"
       /\ (~is_capturing /\ CaptureTimerTimeout) => capture_data' = capture_data]_vars

\* Stopped after timeouts were handled: Idle, timer stopped, samples kept.
C2_Witness ==
    /\ ~is_capturing
    /\ capture_timer = "stopped"
    /\ tick_count > 0
    /\ capture_data # EmptyData
    /\ logged = "INFO"

\* C3 as stated: a call of start_capture while Running changes nothing of
\* the scheduler: state, buffers, timers, controls, pending stops.
C3_StartWhileRunning_AsStated ==
    [][(is_capturing /\ \E reply \in Replies : StartCall(reply))
          => UNCHANGED <<is_capturing, capture_timer, auto_save_timer,
                         capture_data, start_btn, stop_btn, single_btn,
                         pending_stops>>]_vars

\* C4 as stated: a call of stop_capture while Idle leaves the state, the
\* buffers, the capture timer and the Start/Stop/Single buttons as they were.
C4_StopWhileIdle_AsStated ==
    [][(~is_capturing /\ StopCall)
          => UNCHANGED <<is_capturing, capture_timer, capture_data, start_btn,
                         stop_btn, single_btn>>]_vars

\* C5 as stated: a run that single_capture started captures exactly one
\* window, so while it is Running at most one timeout has been handled.
C5_SingleCapturesOneWindow_AsStated ==
    (is_capturing /\ single_run) => ticks_in_run <= 1

\* The channel's buffer ends with the batch of the timeout just handled.
StoredByTick(c) ==
    /\ c \in DOMAIN capture_data
    /\ capture_data[c] # <<>>
    /\ capture_data[c][Len(capture_data[c])][2] = tick_count

\* The buffer holds samples of the current run only.
OfThisRun(buf) == \A i \in DOMAIN buf : buf[i][2] > tick_count - ticks_in_run

\* C6 as stated: a timeout appends its batch to what the run has buffered for
\* the channel and keeps the most recent BufferBound samples.
C6_AppendWithEviction_AsStated ==
    [][\A c \in Channels :
          (/\ is_capturing
           /\ CaptureTimerTimeout
           /\ c \in DOMAIN capture_data
           /\ OfThisRun(capture_data[c])
           /\ StoredByTick(c)')
             => capture_data'[c] =
                   KeepLast(BufferBound, capture_data[c] \o Batch(c, tick_count'))]_vars

\* C7 as stated: a timeout that fails (it logs an error) changes no buffer
\* and leaves the scheduler Running with the capture timer active.
C7_FailedTickSkipped_AsStated ==
    [][(is_capturing /\ CaptureTimerTimeout /\ logged' = "ERROR")
          => (/\ capture_data' = capture_data
              /\ is_capturing'
              /\ capture_timer' = "active")]_vars

C9_BuffersChangeOnlyInTick_AsStated ==
    [][capture_data' # capture_data
          => ((is_capturing /\ CaptureTimerTimeout) \/ StartStep)]_vars

\* C9 amended: the buffers change only in a timeout handled while Running,
\* in the reset of start_capture, or in toggle_channel (which drops the
\* buffer of the channel it disables), new_session (which clears them) or
\* load_data (which replaces them by the file's).
C9_BuffersChangeOnlyInTick ==
    [][capture_data' # capture_data
          => \/ (is_capturing /\ CaptureTimerTimeout)
             \/ StartStep
             \/ ChannelToggled
             \/ NewSession
             \/ LoadData]_vars

\* Idle after a run, the buffers replaced by those of a loaded file.
C9_Witness ==
    /\ ~is_capturing
    /\ capture_timer = "stopped"
    /\ tick_count > 0
    /\ capture_data # EmptyData
    /\ \A c \in DOMAIN capture_data : capture_data[c] = FileBatch(c)

\* The buffers written by timeouts all carry the batch of the same timeout.
WholeTicks ==
    \A c1, c2 \in DOMAIN capture_data :
        (/\ capture_data[c1] # <<>>
         /\ capture_data[c2] # <<>>
         /\ capture_data[c1][1][2] > 0
         /\ capture_data[c2][1][2] > 0)
           => capture_data[c1][1][2] = capture_data[c2][1][2]

\* C10 as stated: after any call of stop_capture the buffers are those of
\* whole timeouts, never the batch of one timeout for some channels and that
\* of an earlier one for others.
C10_StopSeesWholeTicks_AsStated ==
    [][StopStep => WholeTicks']_vars


RisingEdgeCount(data, threshold) == Cardinality(EdgesOf(Digital(data, threshold), 1))

\* C11 as stated: calculate_statistics never raises, whatever the buffer's
\* length and the threshold, and a buffer with fewer than two rising edges
\* gets a record without the frequency key.
C11_StatisticsTotal_AsStated ==
    (call.fn = "calculate_statistics" /\ applied)
        => /\ ~result.raised
           /\ RisingEdgeCount(call.data, call.threshold) < 2
                 => "frequency" \notin result.value.keys

\* C12: calculate_statistics of an empty buffer returns the empty record and
\* does not raise, for every threshold.
C12_StatisticsOfEmpty ==
    (call.fn = "calculate_statistics" /\ applied /\ call.data = <<>>)
        => (~result.raised /\ result.value = EmptyStats)

\* calculate_statistics has returned for an empty buffer.
C12_Witness ==
    /\ call.fn = "calculate_statistics"
    /\ call.data = <<>>
    /\ call.threshold = HighThreshold
    /\ applied
    /\ result = Returned(EmptyStats)


\* SDA changes by d between samples e and e + 1 (from 0) while SCL is high
\* at both.
SdaEdgesUnderHighScl(data_ch1, data_ch2, threshold, d) ==
    LET scl == Digital(data_ch1, threshold)
        sda_edges == Diff(Digital(data_ch2, threshold))
    IN  {e \in DOMAIN sda_edges : scl[e + 1] = 1 /\ scl[e + 2] = 1 /\ sda_edges[e] = d}

\* One start condition, one stop condition, the start first.
OneStartStopSpan(data_ch1, data_ch2, threshold) ==
    LET starts == SdaEdgesUnderHighScl(data_ch1, data_ch2, threshold, -1)
        stops == SdaEdgesUnderHighScl(data_ch1, data_ch2, threshold, 1)
    IN  /\ Cardinality(starts) = 1
        /\ Cardinality(stops) = 1
        /\ \A s \in starts, t \in stops : s < t

\* C13 as stated: decode_i2c of buffers with exactly one well-formed
\* start-to-stop span returns exactly one transaction, of type I2C, whose
\* start index is less than its stop index.
C13_OneSpanOneTransaction_AsStated ==
    (/\ call.fn = "decode_i2c"
     /\ applied
     /\ OneStartStopSpan(call.data_ch1, call.data_ch2, call.threshold))
        => /\ ~result.raised
           /\ Len(result.value) = 1
           /\ result.value[1].type = "I2C"
           /\ result.value[1].start < result.value[1].stop


\* C14: decode_spi of buffers whose clock has N rising edges returns
\* N \div 8 transactions, one per whole word of 8 edges in order; the
\* remaining N % 8 edges give no transaction.
C14_SpiWholeWordsOnly ==
    (call.fn = "decode_spi" /\ applied)
        => /\ ~result.raised
           /\ Len(result.value) = RisingEdgeCount(call.sclk, call.threshold) \div BitsPerWord
           /\ \A k \in DOMAIN result.value :
                 /\ result.value[k].position = BitsPerWord * (k - 1)
                 /\ result.value[k].type = "SPI"

\* Two whole words and a remainder: 17 or more rising edges, 2 transactions.
C14_Witness ==
    /\ call.fn = "decode_spi"
    /\ applied
    /\ RisingEdgeCount(call.sclk, call.threshold) > 2 * BitsPerWord
    /\ Len(result.value) = 2
    /\ result.value[2].mosi # result.value[2].miso


\* C15 as stated: calculate_statistics of the simulated clock of channel 0
\* (1000 Hz, one 1 ms window, noise added) has the frequency key, and its
\* value num / den is within 5% of 1000.
C15_ClockFrequencyMeasured_AsStated ==
    (call.fn = "measure_clock" /\ applied)
        => /\ ~result.raised
           /\ "frequency" \in result.value.keys
           /\ 950 * result.value.frequency[2] <= result.value.frequency[1]
           /\ result.value.frequency[1] <= 1050 * result.value.frequency[2]

\* C18 as stated: the simulated read returns, for every sample count of 1 or
\* more and every set of enabled channels, a dict whose keys are the enabled
\* channels, each with sample_count time values and sample_count voltages,
\* all within 0 .. 3.6 V; it does not raise.
C18_SimulatedReadShape_AsStated ==
    (call.fn = "generate_simulated_samples" /\ applied)
        => /\ ~result.raised
           /\ DOMAIN result.value = call.enabled
           /\ \A ch \in DOMAIN result.value :
                 /\ result.value[ch].time = call.num_samples
                 /\ result.value[ch].data = call.num_samples
                 /\ 0 <= result.value[ch].low
                 /\ result.value[ch].high <= ClipMax


\* Both cursors are nearest to the same sample of a reference buffer that
\* has samples.
CursorsOnSameSample ==
    /\ call.reference.present
    /\ Len(call.reference.time) > 0
    /\ ArgMin(call.reference.time, call.cursor1_x)
          = ArgMin(call.reference.time, call.cursor2_x)

\* C16 as stated: after a cursor update with both cursors on the same
\* sample, the time and voltage differences shown are 0 and the frequency
\* label shows "--", whatever it showed before.
C16_SameSampleNoFrequency_AsStated ==
    (call.fn = "update_cursor_measurements" /\ applied /\ CursorsOnSameSample)
        => /\ labels.delta_time = <<0>>
           /\ labels.delta_voltage = <<0>>
           /\ labels.frequency = Unavailable

\* C17 as stated: after a cursor update with the reference buffer absent or
\* empty, every cursor label shows "--".
C17_NoReferenceAllUnavailable_AsStated ==
    (/\ call.fn = "update_cursor_measurements"
     /\ applied
     /\ (call.reference.present => Len(call.reference.time) = 0))
        => labels = InitialLabels


\* read_samples returns a batch for exactly the enabled channels.
ReadReturnsEnabled ==
    /\ ~HardwareRead.raised
    /\ DOMAIN HardwareRead.value = {c \in Channels : channels_enabled[c]}

\* C19: a connect that fails (the handler logs an error) leaves the hardware
\* in simulation mode, and after every step, connects, failed connects and
\* disconnects included, read_samples returns a batch for the enabled
\* channels.
C19_FailedConnectRecovered ==
    [][/\ ((ConnectClicked \/ SetupHardware) /\ logged' = "ERROR") => simulation_mode'
       /\ ReadReturnsEnabled']_vars

\* A connect has failed after an earlier connect succeeded and the device
\* was disconnected (which left the Start button off).
C19_Witness ==
    /\ ~is_capturing
    /\ ~start_btn
    /\ ~connected
    /\ simulation_mode
    /\ logged = "ERROR"
    /\ ReadReturnsEnabled

\* C20: a save or a load of a capture file that fails (the handler logs an
\* error) leaves the Idle/Running state, the tick source and every capture
\* buffer as they were before the call.
C20_FailedPersistenceKeepsState_AsStated ==
    [][((LoadData \/ SaveData) /\ logged' = "ERROR")
          => UNCHANGED <<is_capturing, capture_timer, capture_data>>]_vars

\* SDA falls between samples e and e + 1 (from 0) while SCL has no edge
\* there and is at level scl_level.
SdaFallsUnderSteadyScl(data_ch1, data_ch2, threshold, scl_level) ==
    LET scl == Digital(data_ch1, threshold)
        sda_edges == Diff(Digital(data_ch2, threshold))
    IN  {e \in DOMAIN sda_edges :
            /\ scl[e + 1] = scl_level
            /\ scl[e + 2] = scl_level
            /\ sda_edges[e] = -1}

\* C21 as stated: every transaction decode_i2c returns starts where SCL is
\* steady and high and SDA falls; for buffers in which SDA falls while SCL is
\* steady and low, decode_i2c returns and no transaction starts there.
C21_StartNeedsHighScl_AsStated ==
    (call.fn = "decode_i2c" /\ applied)
        => /\ ~result.raised
              => \A k \in DOMAIN result.value :
                    result.value[k].start \in
                        SdaFallsUnderSteadyScl(call.data_ch1, call.data_ch2,
                                               call.threshold, 1)
           /\ SdaFallsUnderSteadyScl(call.data_ch1, call.data_ch2,
                                     call.threshold, 0) # {}
              => /\ ~result.raised
                 /\ \A k \in DOMAIN result.value :
                       result.value[k].start \notin
                           SdaFallsUnderSteadyScl(call.data_ch1, call.data_ch2,
                                                  call.threshold, 0)

\* Two fractions <<numerator, denominator>> with positive denominators.
SameFraction(a, b) == a[1] * b[2] = b[1] * a[2]

\* C22 as stated: for a buffer of more than 10 samples with falling edges and
\* at least two rising edges, duty_cycle is 100 * mean(pulse width) /
\* avg_period, each pulse width being the distance from a rising edge to the
\* next falling edge after it (rising edges without one are skipped), also
\* when the first falling edge precedes the first rising edge.
C22_DutyCyclePairsNextFall_AsStated ==
    (call.fn = "calculate_statistics" /\ applied /\ Len(call.data) > FreqMinLen)
        => LET digital == Digital(call.data, call.threshold)
               rising == EdgesOf(digital, 1)
               falling == EdgesOf(digital, -1)
               matched == Ascending({r \in rising : \E f \in falling : f > r})
               widths == [i \in 1 .. Len(matched) |->
                             SetMin({f \in falling : f > matched[i]}) - matched[i]]
               periods == Cardinality(rising) - 1
               span == SetMax(rising) - SetMin(rising)
           IN  (falling # {} /\ Cardinality(rising) >= 2)
                  => /\ ~result.raised
                     /\ "duty_cycle" \in result.value.keys
                     /\ SameFraction(result.value.duty_cycle,
                                     <<100 * Sum(widths) * periods,
                                       Len(widths) * span>>)

\* C23: for a buffer of more than 10 samples calculate_statistics returns a
\* frequency exactly when the thresholded signal has two or more rising
\* edges, and the frequency is then 1 / (mean distance between consecutive
\* rising edges); for 10 or fewer samples it reports no frequency, period or
\* duty cycle.
C23_FrequencyFromRisingEdges ==
    (call.fn = "calculate_statistics" /\ applied)
        => LET rising == Ascending(EdgesOf(Digital(call.data, call.threshold), 1))
               distances == [i \in 1 .. (Len(rising) - 1) |-> rising[i + 1] - rising[i]]
           IN  IF Len(call.data) > FreqMinLen
               THEN /\ ~result.raised
                    /\ "frequency" \in result.value.keys <=> Len(rising) >= 2
                    /\ Len(rising) >= 2
                          => SameFraction(result.value.frequency,
                                          <<Len(distances), Sum(distances)>>)
               ELSE \/ result.raised
                    \/ result.value.keys
                         \cap {"frequency", "period", "duty_cycle"} = {}

\* A frequency was returned for a buffer with three rising edges that are
\* not evenly spaced.
C23_Witness ==
    /\ call.fn = "calculate_statistics"
    /\ applied
    /\ ~result.raised
    /\ "frequency" \in result.value.keys
    /\ LET rising == Ascending(EdgesOf(Digital(call.data, call.threshold), 1))
       IN  /\ Len(rising) = 3
           /\ rising[2] - rising[1] # rising[3] - rising[2]

\* C28 as stated: whenever calculate_statistics returns a duty_cycle, it is
\* greater than 0 and at most 100 percent.
C28_DutyCycleInRange_AsStated ==
    (/\ call.fn = "calculate_statistics"
     /\ applied
     /\ ~result.raised
     /\ "duty_cycle" \in result.value.keys)
        => /\ result.value.duty_cycle[1] > 0
           /\ result.value.duty_cycle[1] <= 100 * result.value.duty_cycle[2]

\* C25: update_fft does not raise for any buffer; it reports no estimate
\* when the half spectrum has 10 or fewer bins; a reported bin is never below
\* 10 and is the first bin of the largest magnitude among the bins from 10 on.
C25_FundamentalSkipsLowBins ==
    (call.fn = "update_fft" /\ applied)
        => LET est == result.value
               mag == call.fft_magnitude
           IN  /\ ~result.raised
               /\ Cardinality(DOMAIN mag) <= 10 => ~est.reported
               /\ est.reported
                     => /\ est.fundamental_idx[1] >= 10
                        /\ est.fundamental_idx[1] \in DOMAIN mag
                        /\ \A j \in DOMAIN mag :
                              j >= 10 => mag[j] <= mag[est.fundamental_idx[1]]
                        /\ \A j \in DOMAIN mag :
                              (j >= 10 /\ j < est.fundamental_idx[1])
                                 => mag[j] < mag[est.fundamental_idx[1]]
                        /\ est.fundamental_mag = <<mag[est.fundamental_idx[1]]>>

\* An estimate was reported although a bin below 10 has a larger magnitude
\* than the reported one, which is not the first bin from 10 on.
C25_Witness ==
    /\ call.fn = "update_fft"
    /\ applied
    /\ result.value.reported
    /\ result.value.fundamental_idx[1] > 10
    /\ call.fft_magnitude[0] > result.value.fundamental_mag[1]

\* C24: the transactions decode_spi returns do not depend on the chip-select
\* buffer: the same call with any other cs buffer returns the same list.
C24_SpiIgnoresChipSelect ==
    (call.fn = "decode_spi" /\ applied)
        => \A cs \in SpiDataLines(Len(call.sclk)) :
              result = decode_spi(call.mosi, call.miso, call.sclk, cs, call.threshold)

\* A word was decoded although chip select stayed high, that is inactive.
C24_Witness ==
    /\ call.fn = "decode_spi"
    /\ applied
    /\ ~result.raised
    /\ Len(result.value) >= 1
    /\ \A k \in DOMAIN call.cs : call.cs[k] = HighLevel

\* C26 as stated: the stop that single_capture schedules ends only the run
\* single_capture started: when it fires during a run that start_capture
\* started, that run is still Running afterwards.
C26_DelayedStopSparesNewRun_AsStated ==
    [][(SingleShotTimeout /\ is_capturing /\ ~single_run) => is_capturing']_vars

NoBufferForDisabled ==
    \A c \in Channels : ~channels_enabled[c] => c \notin DOMAIN capture_data

\* C29: a step other than a file load never gives a disabled channel a
\* buffer when none had one; unchecking a channel removes its buffer in the
\* same step and leaves the buffers of the other channels as they were.
C29_NoBufferForDisabledChannel ==
    [][/\ (NoBufferForDisabled /\ ~LoadData) => NoBufferForDisabled'
       /\ ChannelToggled
             => \A c \in Channels :
                   /\ (channels_enabled[c] /\ ~channels_enabled'[c])
                         => c \notin DOMAIN capture_data'
                   /\ channels_enabled'[c] = channels_enabled[c]
                         => /\ c \in DOMAIN capture_data' <=> c \in DOMAIN capture_data
                            /\ c \in DOMAIN capture_data
                                  => capture_data'[c] = capture_data[c]]_vars

\* Channel 1 is disabled and has no buffer while the run goes on and the last
\* tick has stored channel 0.
C29_Witness ==
    /\ is_capturing
    /\ ~channels_enabled[1]
    /\ channels_enabled[0]
    /\ tick_count = MaxTicks
    /\ ticks_in_run = MaxTicks
    /\ DOMAIN capture_data = {0}
    /\ capture_data[0] = Batch(0, tick_count)

\* C30: start_capture and single_capture called while Idle with no channel
\* group checked leave the scheduler Idle, the capture timer, the auto-save
\* timer and the buffers as they were; the stop that single_capture still
\* schedules leaves the scheduler Idle and the buffers unchanged when it
\* fires.
C30_RejectedStartHasNoEffect ==
    [][/\ (/\ (\E reply \in Replies : StartCall(reply) \/ SingleCall(reply))
           /\ ~AnyChannelEnabled
           /\ ~is_capturing)
             => /\ ~is_capturing'
                /\ UNCHANGED <<capture_timer, auto_save_timer, capture_data>>
       /\ SingleShotTimeout => (~is_capturing' /\ UNCHANGED capture_data)]_vars

\* single_capture was rejected: no run was ever started, yet a stop is
\* pending, no channel group is checked and the loaded buffers are kept.
C30_Witness ==
    /\ ~is_capturing
    /\ capture_timer = "none"
    /\ auto_save_timer = "none"
    /\ pending_stops # <<>>
    /\ ~AnyChannelEnabled
    /\ capture_data # EmptyData

====
